---- MODULE Spec2Model ----
(***************************************************************************)
(* Model of simple_find_core::search (src/core/src/lib.rs).                *)
(*                                                                         *)
(* Text is a sequence of characters; every character has a UTF-8 width in  *)
(* bytes, because the column the code reports is a byte offset.  The       *)
(* pattern language is the fragment of the regex syntax spanned by         *)
(* literals, ".", the postfix "*" and an unclosed "[" (a syntax error).    *)
(* search is unfolded into the steps of its three nested loops.            *)
(***************************************************************************)
EXTENDS Integers, Sequences, FiniteSets, TLC

\* ------------------------------------------------------------------ bounds
MaxContentLen == 3
MaxPatLen == 2
MaxFiles == 2
MultiContentLen == 2

\* -------------------------------------------------------------- characters
LF == "\n"
CR == "\r"
EAcute == "é"
Dot == "."
Star == "*"
OpenBracket == "["

TextChars == {"a", "A", EAcute, LF, CR}
PatChars == {"a", "A", EAcute, LF, Dot, Star, OpenBracket}
MultiTextChars == {"a", LF}
\* one pattern of each kind: empty, literal, repetition, not valid
MultiPatterns == {<<>>, <<"a">>, <<"A">>, <<"a", Star>>, <<OpenBracket>>}
\* the patterns with zero-width matches
ZeroWidthPatterns == {<<>>, <<"a", Star>>, <<Dot, Star>>}

\* the cast "as u32": n modulo 2^32, written with 16-bit halves
AsU32(n) == ((n \div 65536) % 65536) * 65536 + (n % 65536)

\* number of bytes of the UTF-8 encoding of a character
Width(c) == IF c = EAcute THEN 2 ELSE 1

\* simple case folding, as applied by case_insensitive(true)
Fold(c) == IF c = "A" THEN "a" ELSE c

RECURSIVE ByteOff(_, _)
\* byte offset of the character boundary before character i+1 of s
ByteOff(s, i) == IF i = 0 THEN 0 ELSE ByteOff(s, i - 1) + Width(s[i])

ByteLen(s) == ByteOff(s, Len(s))

SeqsUpTo(S, n) == UNION {[1..k -> S] : k \in 0..n}

\* ------------------------------------------------------ pattern compilation
NoRe == [valid |-> FALSE, atoms |-> <<>>, ci |-> FALSE]

RECURSIVE ParseAtoms(_, _, _)
\* the atoms of pattern[k..], appended to acc; <<"error", kind>> on a syntax error
ParseAtoms(pattern, k, acc) ==
    IF k > Len(pattern) THEN <<"ok", acc>>
    ELSE IF pattern[k] = OpenBracket THEN <<"error", "unclosed character class">>
    ELSE IF pattern[k] = Star THEN
        IF acc = <<>> THEN <<"error", "repetition operator missing expression">>
        ELSE ParseAtoms(pattern, k + 1,
                 [acc EXCEPT ![Len(acc)] = [ch |-> acc[Len(acc)].ch, star |-> TRUE]])
    ELSE ParseAtoms(pattern, k + 1, Append(acc, [ch |-> pattern[k], star |-> FALSE]))

Parse(pattern) == ParseAtoms(pattern, 1, <<>>)

\* variant: the message names only the engine's diagnostic
ErrorMessage_noPattern(pattern, e) ==
    <<"Invalid regex pattern: ">> \o <<"regex parse error", e>>

\* the error message built by map_err
ErrorMessage(pattern, e) ==
    <<"Invalid regex pattern '">> \o pattern \o <<"': ">> \o <<"regex parse error", e>>

\* ------------------------------------------------------------------ matcher
\* variant: the case flag is not applied
AtomMatches_exactCase(re, atom, c) ==
    IF atom.ch = Dot THEN c # LF ELSE atom.ch = c

AtomMatches(re, atom, c) ==
    IF atom.ch = Dot THEN c # LF
    ELSE IF re.ci THEN Fold(atom.ch) = Fold(c)
    ELSE atom.ch = c

RECURSIVE RunLen(_, _, _, _)
\* number of consecutive characters of line after position i the atom matches
RunLen(re, atom, line, i) ==
    IF i < Len(line) /\ AtomMatches(re, atom, line[i + 1])
    THEN 1 + RunLen(re, atom, line, i + 1) ELSE 0

RECURSIVE MatchFrom(_, _, _, _)
RECURSIVE TryStar(_, _, _, _, _)
\* end position of the leftmost-first match of atoms k.. starting at position i,
\* or -1 when there is none (positions are character boundaries, 0-based)
MatchFrom(re, k, line, i) ==
    IF k > Len(re.atoms) THEN i
    ELSE IF re.atoms[k].star
         THEN TryStar(re, k, line, i, RunLen(re, re.atoms[k], line, i))
    ELSE IF i < Len(line) /\ AtomMatches(re, re.atoms[k], line[i + 1])
         THEN MatchFrom(re, k + 1, line, i + 1)
    ELSE -1

\* greedy repetition: the longest run first, then shorter ones
TryStar(re, k, line, i, r) ==
    LET e == MatchFrom(re, k + 1, line, i + r)
    IN  IF e # -1 THEN e
        ELSE IF r = 0 THEN -1
        ELSE TryStar(re, k, line, i, r - 1)

RECURSIVE FindAt(_, _, _)
\* the leftmost match starting at or after position start: <<s, e>>, or <<-1, -1>>
FindAt(re, line, start) ==
    IF start > Len(line) THEN <<-1, -1>>
    ELSE LET e == MatchFrom(re, 1, line, start)
         IN  IF e # -1 THEN <<start, e>> ELSE FindAt(re, line, start + 1)

\* -------------------------------------------------------------------- lines
RECURSIVE SplitInclusive(_, _, _)
\* the pieces of content, each ending with its LF (the last one possibly without)
SplitInclusive(content, k, cur) ==
    IF k > Len(content) THEN (IF cur = <<>> THEN <<>> ELSE <<cur>>)
    ELSE IF content[k] = LF
         THEN <<Append(cur, LF)>> \o SplitInclusive(content, k + 1, <<>>)
    ELSE SplitInclusive(content, k + 1, Append(cur, content[k]))

\* a piece without its LF, and without one CR before that LF
StripLine(piece) ==
    IF piece # <<>> /\ piece[Len(piece)] = LF
    THEN LET l == SubSeq(piece, 1, Len(piece) - 1)
         IN  IF l # <<>> /\ l[Len(l)] = CR THEN SubSeq(l, 1, Len(l) - 1) ELSE l
    ELSE piece

\* variant: an empty content is one empty line
Lines_emptyIsOneLine(content) ==
    LET pieces == SplitInclusive(content, 1, <<>>)
    IN  IF content = <<>> THEN << <<>> >>
        ELSE [i \in 1..Len(pieces) |-> StripLine(pieces[i])]

\* variant: only the LF is removed from a line
Lines_keepCR(content) ==
    LET pieces == SplitInclusive(content, 1, <<>>)
    IN  [i \in 1..Len(pieces) |->
            IF pieces[i][Len(pieces[i])] = LF
            THEN SubSeq(pieces[i], 1, Len(pieces[i]) - 1) ELSE pieces[i]]

Lines(content) ==
    LET pieces == SplitInclusive(content, 1, <<>>)
    IN  [i \in 1..Len(pieces) |-> StripLine(pieces[i])]

\* ------------------------------------------------------------------- state
VARIABLES pattern, files, case_sensitive,
          pc, re, err, results, fi, lines, li, last_end, last_match

vars == <<pattern, files, case_sensitive,
          pc, re, err, results, fi, lines, li, last_end, last_match>>

cur == [pc |-> pc, re |-> re, err |-> err, results |-> results, fi |-> fi,
        lines |-> lines, li |-> li, last_end |-> last_end, last_match |-> last_match]

Start == [pc |-> "compile", re |-> NoRe, err |-> <<>>, results |-> <<>>, fi |-> 0,
          lines |-> <<>>, li |-> 0, last_end |-> 0, last_match |-> -1]

\* ------------------------------------------------------------------- steps
\* Regex::new(pattern) / RegexBuilder::new(pattern).case_insensitive(ci).build()
Build(p, ci) ==
    LET r == Parse(p)
    IN  IF r[1] = "error" THEN [ok |-> FALSE, e |-> r[2], re |-> NoRe]
        ELSE [ok |-> TRUE, e |-> "", re |-> [valid |-> TRUE, atoms |-> r[2], ci |-> ci]]

\* variant: a pattern that does not compile is searched with an empty matcher
CompileStep_fallback(s, p, cs) ==
    LET b == Build(p, ~cs)
    IN  [s EXCEPT !.pc = "file", !.fi = 1, !.results = <<>>,
                  !.re = [valid |-> TRUE, atoms |-> b.re.atoms, ci |-> ~cs]]

\* lines 39-48: build the matcher in the branch the flag selects, or return the error
CompileStep(s, p, cs) ==
    LET b == IF cs THEN Build(p, FALSE) ELSE Build(p, TRUE)
    IN  IF cs
        THEN IF ~b.ok THEN [s EXCEPT !.pc = "error", !.err = ErrorMessage(p, b.e)]
             ELSE [s EXCEPT !.pc = "file", !.fi = 1, !.results = <<>>, !.re = b.re]
        ELSE IF ~b.ok THEN [s EXCEPT !.pc = "error", !.err = ErrorMessage(p, b.e)]
             ELSE [s EXCEPT !.pc = "file", !.fi = 1, !.results = <<>>, !.re = b.re]

\* variant: the result vector is created inside the loop over the files
FileStep_freshResults(s, fs) ==
    IF s.fi > Len(fs) THEN [s EXCEPT !.pc = "done"]
    ELSE [s EXCEPT !.pc = "line", !.lines = Lines(fs[s.fi].content), !.li = 1,
                   !.results = <<>>]

\* line 50: the next file, or Ok(results) after the last one
FileStep(s, fs) ==
    IF s.fi > Len(fs) THEN [s EXCEPT !.pc = "done"]
    ELSE [s EXCEPT !.pc = "line", !.lines = Lines(fs[s.fi].content), !.li = 1]

\* variant: the iterator's position is carried over from the previous line
LineStep_keepIterator(s) ==
    IF s.li > Len(s.lines) THEN [s EXCEPT !.pc = "file", !.fi = s.fi + 1]
    ELSE [s EXCEPT !.pc = "find"]

\* line 51: the next line of the file, with a fresh find_iter
LineStep(s) ==
    IF s.li > Len(s.lines) THEN [s EXCEPT !.pc = "file", !.fi = s.fi + 1]
    ELSE [s EXCEPT !.pc = "find", !.last_end = 0, !.last_match = -1]

\* variant: the column is the 0-based offset
MakeResult_zeroBasedColumn(f, line_idx, line, mstart) ==
    [path |-> f.path,
     line |-> AsU32(line_idx + 1),
     column |-> AsU32(ByteOff(line, mstart)),
     line_text |-> line]

\* variant: the line is the 0-based index
MakeResult_zeroBasedLine(f, line_idx, line, mstart) ==
    [path |-> f.path,
     line |-> AsU32(line_idx),
     column |-> AsU32(ByteOff(line, mstart) + 1),
     line_text |-> line]

\* lines 53-58
MakeResult(f, line_idx, line, mstart) ==
    [path |-> f.path,
     line |-> AsU32(line_idx + 1),
     column |-> AsU32(ByteOff(line, mstart) + 1),
     line_text |-> line]

\* variant: the search resumes at the empty match itself
NextAfterEmpty_stay(line, e) == e

\* the position after an empty match at e: one character further
NextAfterEmpty(line, e) == e + 1

\* lines 52-59: one call of the iterator's next, and the push of its match
FindStep(s, fs) ==
    LET line == s.lines[s.li]
        m == FindAt(s.re, line, s.last_end)
        exhausted == [s EXCEPT !.pc = "line", !.li = s.li + 1]
    IN  IF s.last_end > Len(line) \/ m[1] = -1 THEN exhausted
        ELSE IF m[1] = m[2]
             THEN IF m[2] = s.last_match
                  THEN [s EXCEPT !.last_end = NextAfterEmpty(line, m[2])]
                  ELSE [s EXCEPT !.last_end = NextAfterEmpty(line, m[2]),
                                 !.last_match = m[2],
                                 !.results = Append(s.results,
                                     MakeResult(fs[s.fi], s.li - 1, line, m[1]))]
        ELSE [s EXCEPT !.last_end = m[2], !.last_match = m[2],
                       !.results = Append(s.results,
                           MakeResult(fs[s.fi], s.li - 1, line, m[1]))]

StepFn(s, p, fs, cs) ==
    CASE s.pc = "compile" -> CompileStep(s, p, cs)
      [] s.pc = "file" -> FileStep(s, fs)
      [] s.pc = "line" -> LineStep(s)
      [] s.pc = "find" -> FindStep(s, fs)
      [] OTHER -> s

RECURSIVE Run(_, _, _, _)
Run(s, p, fs, cs) ==
    IF s.pc \in {"done", "error"} THEN s ELSE Run(StepFn(s, p, fs, cs), p, fs, cs)

\* search(pattern, files, case_sensitive) as a function of its arguments
search(p, fs, cs) == Run(Start, p, fs, cs)

\* ----------------------------------------------------------------- actions
SetState(s) ==
    /\ pc' = s.pc /\ re' = s.re /\ err' = s.err /\ results' = s.results
    /\ fi' = s.fi /\ lines' = s.lines /\ li' = s.li
    /\ last_end' = s.last_end /\ last_match' = s.last_match
    /\ UNCHANGED <<pattern, files, case_sensitive>>

Compile == pc = "compile" /\ SetState(CompileStep(cur, pattern, case_sensitive))
NextFile == pc = "file" /\ SetState(FileStep(cur, files))
NextLine == pc = "line" /\ SetState(LineStep(cur))
FindNext == pc = "find" /\ SetState(FindStep(cur, files))

Next == Compile \/ NextFile \/ NextLine \/ FindNext

InitState ==
    /\ pc = Start.pc /\ re = Start.re /\ err = Start.err /\ results = Start.results
    /\ fi = Start.fi /\ lines = Start.lines /\ li = Start.li
    /\ last_end = Start.last_end /\ last_match = Start.last_match

\* lists of at most n files with contents over chars of length at most len;
\* the files of a list have either all the same path or pairwise distinct paths
FileLists(chars, len, n) ==
    UNION {{[k \in 1..m |-> [path |-> IF same THEN "p" ELSE ToString(k), content |-> c[k]]] :
                c \in [1..m -> SeqsUpTo(chars, len)], same \in BOOLEAN} : m \in 0..n}

\* one call on at most one file, any content and pattern within the bounds
Init ==
    /\ pattern \in SeqsUpTo(PatChars, MaxPatLen)
    /\ case_sensitive \in BOOLEAN
    /\ files \in FileLists(TextChars, MaxContentLen, 1)
    /\ InitState

\* one call on a list of files
InitMulti ==
    /\ pattern \in MultiPatterns
    /\ case_sensitive \in BOOLEAN
    /\ files \in FileLists(MultiTextChars, MultiContentLen, MaxFiles)
    /\ InitState

\* one call with a pattern that has zero-width matches
InitZeroWidth ==
    /\ pattern \in ZeroWidthPatterns
    /\ case_sensitive \in BOOLEAN
    /\ files \in FileLists(TextChars, MaxContentLen, 1)
    /\ InitState

Spec == Init /\ [][Next]_vars
SpecMulti == InitMulti /\ [][Next]_vars
\* the call is sequential and never waits: a step that can be taken is taken
FairSpec == InitZeroWidth /\ [][Next]_vars /\ WF_vars(Next)

TypeOK ==
    /\ pc \in {"compile", "file", "line", "find", "done", "error"}
    /\ fi \in 0..(Len(files) + 1)
    /\ li \in 0..(Len(lines) + 1)
    /\ \A i \in 1..Len(results) : results[i].line >= 1 /\ results[i].column >= 1

\* ------------------------------------------------------------------ claims
Terminated == pc \in {"done", "error"}
Valid(p) == Parse(p)[1] = "ok"

\* hay contains needle as a contiguous subsequence
Contains(hay, needle) ==
    \E i \in 0..(Len(hay) - Len(needle)) : SubSeq(hay, i + 1, i + Len(needle)) = needle

ResultsOf(fs) == search(pattern, fs, case_sensitive).results

\* C1: a successful search of a file list returns, for every split of the list
\* into A ++ B, the results of A followed by the results of B (both succeed),
\* and the results of one file all carry that file's path.
C1_Concatenation ==
    pc = "done" =>
        /\ \A k \in 0..Len(files) :
              LET A == search(pattern, SubSeq(files, 1, k), case_sensitive)
                  B == search(pattern, SubSeq(files, k + 1, Len(files)), case_sensitive)
              IN  /\ A.pc = "done"
                  /\ B.pc = "done"
                  /\ results = A.results \o B.results
        /\ \A k \in 1..Len(files) :
              LET own == ResultsOf(<<files[k]>>)
              IN  \A j \in 1..Len(own) : own[j].path = files[k].path

C1_Witness ==
    /\ pc = "done" /\ Len(files) = 2 /\ files[1].path # files[2].path
    /\ Len(results) >= 3
    /\ results[1].path = files[1].path
    /\ results[Len(results)].path = files[2].path

\* C2: with a pattern that is not valid the call ends in the error state, with
\* no result and without a step of the loops over files, lines and matches,
\* whatever the file list and the case flag.
C2_ErrorNoResults ==
    ~Valid(pattern) =>
        /\ pc \in {"compile", "error"}
        /\ results = <<>> /\ fi = 0 /\ li = 0 /\ lines = <<>>
        /\ pc = "error" => err # <<>>

C2_Witness ==
    /\ pc = "error" /\ ~Valid(pattern)
    /\ Len(files) = 2 /\ files[1].content # <<>> /\ ~case_sensitive

\* C3: the message of a returned error contains the pattern as it was passed,
\* with either value of case_sensitive.
C3_MessageHasPattern == pc = "error" => Contains(err, pattern)

C3_Witness == pc = "error" /\ Len(pattern) = 2 /\ ~case_sensitive /\ Contains(err, pattern)

\* the results reported for line n, in order
OnLine(n) == SelectSeq(results, LAMBDA r : r.line = n)

\* the character position whose byte offset plus one is the column col, or -1
PosOfColumn(line, col) ==
    IF \E i \in 0..Len(line) : ByteOff(line, i) + 1 = col
    THEN CHOOSE i \in 0..Len(line) : ByteOff(line, i) + 1 = col
    ELSE -1

\* the matcher accepts a match that starts at position i of line
MatchesAt(line, i) == MatchFrom(re, 1, line, i) # -1

\* a successful call on exactly one file
DoneOne == pc = "done" /\ Len(files) = 1

\* C4: after a successful search of a file, every result carries the file's
\* path, a 1-based line index of the file, the whole text of that line, and a
\* column that is one more than the byte offset of a position where the pattern
\* matches; the matches reported for a line go left to right without overlap;
\* and every position of a line where the pattern matches is reported, unless
\* it lies inside a reported match or is an empty match at the end of one.
C4_OneResultPerMatch ==
    DoneOne =>
        LET f == files[1]
            L == Lines(f.content)
            S(r) == PosOfColumn(L[r.line], r.column)
            E(r) == MatchFrom(re, 1, L[r.line], S(r))
        IN  /\ \A j \in 1..Len(results) :
                  LET r == results[j]
                  IN  /\ r.path = f.path
                      /\ r.line \in 1..Len(L)
                      /\ r.line_text = L[r.line]
                      /\ S(r) # -1
                      /\ MatchesAt(L[r.line], S(r))
            /\ \A j \in 1..(Len(results) - 1) :
                  \/ results[j].line < results[j + 1].line
                  \/ /\ results[j].line = results[j + 1].line
                     /\ S(results[j]) < S(results[j + 1])
                     /\ E(results[j]) <= S(results[j + 1])
            /\ \A n \in 1..Len(L) : \A i \in 0..Len(L[n]) :
                  MatchesAt(L[n], i) =>
                      \E j \in 1..Len(results) :
                          LET r == results[j]
                          IN  /\ r.line = n
                              /\ \/ S(r) = i
                                 \/ S(r) < i /\ i < E(r)
                                 \/ S(r) < i /\ i = E(r) /\ MatchFrom(re, 1, L[n], i) = i

\* two matches on one line, the second not at the start, and a line without a match
C4_Witness ==
    /\ DoneOne
    /\ Len(Lines(files[1].content)) = 2
    /\ Len(results) = 2
    /\ results[1].line = results[2].line
    /\ results[1].column = 1 /\ results[2].column = 3
    /\ Len(results[1].line_text) = 2

IsLiteral(p) == p # <<>> /\ \A i \in 1..Len(p) : p[i] \notin {Dot, Star, OpenBracket}

\* the literal p occurs at position i of line, exactly or up to letter case
Occurs(line, i, p, exact) ==
    /\ i + Len(p) <= Len(line)
    /\ \A j \in 1..Len(p) :
          IF exact THEN line[i + j] = p[j] ELSE Fold(line[i + j]) = Fold(p[j])

\* C5: for a literal pattern, every reported match is an occurrence of the
\* pattern with identical letter case when case_sensitive is true, and an
\* occurrence up to letter case when it is false; every such occurrence in a
\* line is reported or overlaps a reported one; line_text is the line as it
\* stands in the content, in its original casing.
C5_CaseSensitivity ==
    (DoneOne /\ IsLiteral(pattern)) =>
        LET f == files[1]
            L == Lines(f.content)
        IN  /\ \A j \in 1..Len(results) :
                  LET r == results[j]
                  IN  /\ r.line \in 1..Len(L)
                      /\ r.line_text = L[r.line]
                      /\ PosOfColumn(L[r.line], r.column) # -1
                      /\ Occurs(L[r.line], PosOfColumn(L[r.line], r.column),
                                pattern, case_sensitive)
            /\ \A n \in 1..Len(L) : \A i \in 0..Len(L[n]) :
                  Occurs(L[n], i, pattern, case_sensitive) =>
                      \E j \in 1..Len(results) :
                          LET s == PosOfColumn(L[n], results[j].column)
                          IN  /\ results[j].line = n
                              /\ s <= i /\ i < s + Len(pattern)

\* a case-insensitive match of text whose case differs from the pattern's
C5_Witness ==
    /\ DoneOne /\ ~case_sensitive /\ pattern = <<"a">>
    /\ Len(results) = 2
    /\ results[1].line_text = <<"A", EAcute, "a">>
    /\ results[1].column = 1 /\ results[2].column = 4

\* the columns of the results reported for line n, in order
ColumnsOn(n) == [j \in 1..Len(OnLine(n)) |-> OnLine(n)[j].column]

\* C6 as stated: for the empty pattern every line of length len gives len+1
\* results with columns 1, 2, ..., len+1 (len counted in characters or in
\* bytes, whichever fits).
C6_Original ==
    (DoneOne /\ pattern = <<>>) =>
        \A n \in 1..Len(Lines(files[1].content)) :
            \E len \in {Len(Lines(files[1].content)[n]), ByteLen(Lines(files[1].content)[n])} :
                ColumnsOn(n) = [j \in 1..(len + 1) |-> j]

C6_PerBoundary ==
    (DoneOne /\ pattern = <<>>) =>
        \A n \in 1..Len(Lines(files[1].content)) :
            LET line == Lines(files[1].content)[n]
            IN  /\ ColumnsOn(n) = [j \in 1..(Len(line) + 1) |-> ByteOff(line, j - 1) + 1]
                /\ (\A k \in 1..Len(line) : Width(line[k]) = 1) =>
                       ColumnsOn(n) = [j \in 1..(Len(line) + 1) |-> j]

\* a step of the iterator that stays on the line resumes further right
C6_Advances ==
    (pc = "find" /\ pc' = "find") => (last_end' > last_end /\ last_end' <= Len(lines[li]) + 1)

\* C6: for the empty pattern every line gives one result per character
\* boundary, number of characters + 1 of them, with column = byte offset of the
\* boundary + 1 (1, 2, ..., len+1 when every character is one byte); every step
\* of the iteration over the matches of a line advances, and the call ends.
C6_EmptyPattern == [](C6_PerBoundary) /\ [][C6_Advances]_vars /\ <>Terminated

C6_Witness ==
    /\ DoneOne /\ pattern = <<>>
    /\ files[1].content = <<"a", EAcute, "A">>
    /\ ColumnsOn(1) = <<1, 2, 4, 5>>

\* the number of results found in the first k files
Boundary(k) ==
    IF k = 0 THEN 0 ELSE Len(ResultsOf(SubSeq(files, 1, k)))

\* C7: in the results of a successful search every line and column is at least
\* 1, and two successive results found in the same input file are strictly
\* increasing in (line, column): the line does not decrease, and on the same
\* line the column increases; the first result of a file is on one of its lines.
C7_LexIncreasing ==
    pc = "done" =>
        LET bnd == [k \in 0..Len(files) |-> Boundary(k)]
            \* the input file (by position) that result j was found in
            FileOf(j) == CHOOSE k \in 1..Len(files) : bnd[k - 1] < j /\ j <= bnd[k]
        IN  /\ bnd[Len(files)] = Len(results)
            /\ \A j \in 1..Len(results) : results[j].line >= 1 /\ results[j].column >= 1
            /\ \A j \in 1..(Len(results) - 1) :
                  FileOf(j) = FileOf(j + 1) =>
                      \/ results[j].line < results[j + 1].line
                      \/ /\ results[j].line = results[j + 1].line
                         /\ results[j].column < results[j + 1].column
            /\ \A k \in 1..Len(files) :
                  (bnd[k] > bnd[k - 1]) =>
                      results[bnd[k - 1] + 1].line \in 1..Len(Lines(files[k].content))

\* two files with the same path; the second file's results start again at line 1
C7_Witness ==
    /\ pc = "done" /\ Len(files) = 2 /\ files[1].path = files[2].path
    /\ Len(results) = 4
    /\ results[1].line = 1 /\ results[2].line = 2
    /\ results[3].line = 1 /\ results[3].column = 1
    /\ results[4].line = 1 /\ results[4].column = 2

\* C8 as stated: an empty content is scanned as one empty line, so the empty
\* pattern gives one result (line 1, column 1, empty line_text) for it.
C8_Original ==
    (DoneOne /\ files[1].content = <<>> /\ pattern = <<>>) =>
        results = <<[path |-> files[1].path, line |-> 1, column |-> 1, line_text |-> <<>>]>>

\* C8: a file whose content is the empty string has no line: a successful
\* search yields no result for it under any pattern, the empty pattern and
\* the other patterns that match the empty string included.
C8_EmptyContent ==
    /\ (pc \in {"line", "find"} /\ files[fi].content = <<>>) => (lines = <<>> /\ pc = "line")
    /\ (DoneOne /\ files[1].content = <<>>) => results = <<>>

C8_Witness ==
    /\ DoneOne /\ files[1].content = <<>> /\ pattern = <<>> /\ results = <<>>

\* the positions of the line feeds of content
LFs(c) == {j \in 1..Len(c) : c[j] = LF}

NthLF(c, n) == CHOOSE j \in LFs(c) : Cardinality({x \in LFs(c) : x <= j}) = n

LineCount(c) ==
    Cardinality(LFs(c)) + (IF c # <<>> /\ c[Len(c)] # LF THEN 1 ELSE 0)

\* line n of content: the text between line feeds n-1 and n, without the
\* carriage return that precedes line feed n
LineText(c, n) ==
    LET from == IF n = 1 THEN 1 ELSE NthLF(c, n - 1) + 1
        closed == n <= Cardinality(LFs(c))
        to == IF closed THEN NthLF(c, n) - 1 ELSE Len(c)
        raw == SubSeq(c, from, to)
    IN  IF closed /\ raw # <<>> /\ raw[Len(raw)] = CR
        THEN SubSeq(raw, 1, Len(raw) - 1) ELSE raw

EndsWithTerminator(c) == c # <<>> /\ c[Len(c)] = LF

\* content without its final terminator (LF, or CR LF)
WithoutFinalTerminator(c) ==
    IF ~EndsWithTerminator(c) THEN c
    ELSE IF Len(c) >= 2 /\ c[Len(c) - 1] = CR THEN SubSeq(c, 1, Len(c) - 2)
    ELSE SubSeq(c, 1, Len(c) - 1)

SameWithoutFinalTerminator ==
    results = ResultsOf(<<[path |-> files[1].path,
                           content |-> WithoutFinalTerminator(files[1].content)]>>)

\* C9 as stated: a content that ends with a terminator yields the same
\* results as that content without the final terminator.
C9_Original ==
    (DoneOne /\ EndsWithTerminator(files[1].content)) => SameWithoutFinalTerminator

\* C9: the lines scanned are the pieces of the content between its line feeds,
\* each without its line feed and without the carriage return before it: empty
\* lines count, a last piece without terminator is a line, and no line_text
\* contains a line feed; a content that ends with a terminator yields the same
\* results as that content without the final terminator provided the rest is
\* not empty and does not itself end with a line feed.
C9_LineSplitting ==
    /\ (pc \in {"line", "find"}) =>
           lines = [n \in 1..LineCount(files[fi].content) |-> LineText(files[fi].content, n)]
    /\ DoneOne =>
           LET c == files[1].content
               rest == WithoutFinalTerminator(c)
           IN  /\ \A j \in 1..Len(results) :
                      /\ results[j].line \in 1..LineCount(c)
                      /\ results[j].line_text = LineText(c, results[j].line)
                      /\ \A k \in 1..Len(results[j].line_text) : results[j].line_text[k] # LF
               /\ (EndsWithTerminator(c) /\ rest # <<>> /\ rest[Len(rest)] # LF)
                      => SameWithoutFinalTerminator

\* an empty first line that counts and has a match, and a final terminator
\* that changes nothing
C9_Witness ==
    /\ DoneOne /\ files[1].content = <<LF, "a", LF>>
    /\ Len(results) = 3
    /\ results[1].line = 1 /\ results[1].line_text = <<>>
    /\ results[2].line = 2 /\ results[2].line_text = <<"a">>
    /\ SameWithoutFinalTerminator

\* the results of a search of a file that consists of the one line text,
\* renumbered as line n
Alone(text, n) ==
    LET rs == ResultsOf(<<[path |-> files[1].path, content |-> text \o <<CR, LF>>]>>)
    IN  [j \in 1..Len(rs) |-> [rs[j] EXCEPT !.line = n]]

\* C10: the results reported for a line are those of a search of that line
\* alone, whatever the lines around it; a pattern that needs a line feed (one
\* that is not under a "*"), and a literal that occurs only across a
\* terminator, yield no result.
C10_LineByLine ==
    DoneOne =>
        LET L == Lines(files[1].content)
        IN  /\ \A n \in 1..Len(L) : OnLine(n) = Alone(L[n], n)
            /\ (\E k \in 1..Len(pattern) :
                    pattern[k] = LF /\ (k = Len(pattern) \/ pattern[k + 1] # Star))
                   => results = <<>>
            /\ (IsLiteral(pattern) /\ \A n \in 1..Len(L) :
                    \A i \in 0..Len(L[n]) : ~Occurs(L[n], i, pattern, case_sensitive))
                   => results = <<>>

\* the literal "aa" is in the content only across the line feed
C10_Witness ==
    /\ DoneOne /\ pattern = <<"a", "a">> /\ files[1].content = <<"a", LF, "a">>
    /\ results = <<>>
====
